---- MODULE Spec2Model ----
(***************************************************************************)
(* Job lifecycle engine of the Autocare backend: the job status state      *)
(* machine, the estimate/approval gate, the RFQ and quote selection        *)
(* workflow and payment reconciliation, as implemented by                  *)
(* JobCardService, RFQService, PaymentService, the Stripe webhook and the  *)
(* driver routes.  Money is counted in whole currency units; every input   *)
(* set is chosen so that the 5% VAT of the code is an exact integer.       *)
(*                                                                         *)
(* A request handler works on its own SQLAlchemy session: it loads rows,   *)
(* changes the loaded copies and writes the changed columns at commit.     *)
(* The sequential specification Spec runs every handler as one step; the   *)
(* concurrent specifications split a handler at each statement that reads  *)
(* the database, so that other requests can commit in between.             *)
(***************************************************************************)
EXTENDS Integers, Sequences, FiniteSets, TLC

\* ------------------------------------------------------------------ bounds
NumVendors == 2
MaxRfqs == 1
MaxPayments == 2
MaxLog == 9
MaxTime == 2
NumProcs == 2

Vendors == 1..NumVendors
Procs == 1..NumProcs

\* ------------------------------------------------------------ enumerations
JobStatus ==
  {"REQUESTED", "SCHEDULED", "VEHICLE_PICKED", "IN_INTAKE", "DIAGNOSED",
   "AWAITING_ESTIMATE_APPROVAL", "ESTIMATE_APPROVED", "RFQ_SENT",
   "QUOTES_RECEIVED", "AWAITING_PARTS_APPROVAL", "PARTS_APPROVED",
   "AWAITING_PAYMENT", "PARTIALLY_PAID", "PAID", "PARTS_ORDERED",
   "PARTS_RECEIVED", "IN_SERVICE", "TESTING", "READY", "OUT_FOR_DELIVERY",
   "DELIVERED", "CLOSED", "CANCELLED"}

RFQStatus ==
  {"DRAFT", "PENDING", "SENT", "QUOTES_RECEIVED", "QUOTE_SELECTED",
   "ORDERED", "CANCELLED"}

QuoteStatus == {"PENDING", "SUBMITTED", "SELECTED", "REJECTED", "EXPIRED"}

PaymentStatus ==
  {"PENDING", "PROCESSING", "COMPLETED", "FAILED", "CANCELLED", "REFUNDED"}

\* The static transition table of the job state machine.
_get_valid_transitions(current) ==
  CASE current = "REQUESTED" -> {"SCHEDULED", "CANCELLED"}
    [] current = "SCHEDULED" -> {"VEHICLE_PICKED", "IN_INTAKE", "CANCELLED"}
    [] current = "VEHICLE_PICKED" -> {"IN_INTAKE", "CANCELLED"}
    [] current = "IN_INTAKE" -> {"DIAGNOSED", "CANCELLED"}
    [] current = "DIAGNOSED" -> {"AWAITING_ESTIMATE_APPROVAL", "CANCELLED"}
    [] current = "AWAITING_ESTIMATE_APPROVAL" ->
         {"ESTIMATE_APPROVED", "CANCELLED"}
    [] current = "ESTIMATE_APPROVED" ->
         {"RFQ_SENT", "AWAITING_PAYMENT", "IN_SERVICE"}
    [] current = "RFQ_SENT" -> {"QUOTES_RECEIVED", "CANCELLED"}
    [] current = "QUOTES_RECEIVED" -> {"AWAITING_PARTS_APPROVAL"}
    [] current = "AWAITING_PARTS_APPROVAL" -> {"PARTS_APPROVED", "CANCELLED"}
    [] current = "PARTS_APPROVED" -> {"AWAITING_PAYMENT"}
    [] current = "AWAITING_PAYMENT" -> {"PARTIALLY_PAID", "PAID", "CANCELLED"}
    [] current = "PARTIALLY_PAID" -> {"PAID", "PARTS_ORDERED", "IN_SERVICE"}
    [] current = "PAID" -> {"PARTS_ORDERED", "IN_SERVICE"}
    [] current = "PARTS_ORDERED" -> {"PARTS_RECEIVED"}
    [] current = "PARTS_RECEIVED" -> {"IN_SERVICE"}
    [] current = "IN_SERVICE" -> {"TESTING"}
    [] current = "TESTING" -> {"READY", "IN_SERVICE"}
    [] current = "READY" -> {"OUT_FOR_DELIVERY", "DELIVERED"}
    [] current = "OUT_FOR_DELIVERY" -> {"DELIVERED"}
    [] current = "DELIVERED" -> {"CLOSED"}
    [] current = "CLOSED" -> {}
    [] current = "CANCELLED" -> {}
    [] OTHER -> {}

\* ------------------------------------------------------------------- state
VARIABLES
  job,             \* the job_cards row
  estimate_items,  \* the estimate_items rows of the job, in insertion order
  rfqs,            \* the rfqs rows, index = id
  quotes,          \* the vendor_quotes rows, index = id
  payments,        \* the payments rows, index = id
  updates,         \* the job_updates rows
  audit,           \* the audit_logs rows
  now,             \* datetime.utcnow()
  result,          \* what the last handler that ran as one step returned
  req              \* the sessions of the requests in flight

vars ==
  <<job, estimate_items, rfqs, quotes, payments, updates, audit, now,
    result, req>>

\* A timestamp column that is NULL.
None == 0

\* The response of a handler: outcome is "ok" or the error raised; from/to
\* carry the statuses named in an error detail, ref the id of the row
\* returned.
Response(op, outcome, from, to, ref) ==
  [op |-> op, outcome |-> outcome, from |-> from, to |-> to, ref |-> ref]

\* A session that holds nothing.
IdleReq == [op |-> "idle", pc |-> "idle"]

\* JobCardService.create_booking: the row of a new job.
create_booking ==
  [status |-> "REQUESTED",
   labour_total |-> 0, parts_total |-> 0, pickup_delivery_fee |-> 0,
   tax_amount |-> 0, discount_amount |-> 0, estimate_total |-> 0,
   grand_total |-> 0, amount_paid |-> 0, balance_due |-> 0,
   estimate_approved_at |-> None, parts_approved_at |-> None,
   actual_pickup_time |-> None, actual_delivery_time |-> None,
   actual_completion_date |-> None]

Init ==
  /\ job = create_booking
  /\ estimate_items = <<>>
  /\ rfqs = <<>>
  /\ quotes = <<>>
  /\ payments = <<>>
  /\ updates = <<>>
  /\ audit = <<[action |-> "created", description |-> <<"REQUESTED">>]>>
  /\ now = 1
  /\ result = Response("create_booking", "ok", "", "", 0)
  /\ req = [p \in Procs |-> IdleReq]

\* Time passes between requests.
Tick ==
  /\ now < MaxTime
  /\ now' = now + 1
  /\ UNCHANGED <<job, estimate_items, rfqs, quotes, payments, updates, audit,
                 result, req>>

\* --------------------------------------------------------- JobCardService
\* _create_update: the job_updates row of a status change.
_create_update(old_status, new_status) ==
  [previous_status |-> old_status, new_status |-> new_status]

\* _log_action: an audit_logs row.
_log_action(action, description) ==
  [action |-> action, description |-> description]

\* The columns update_status sets on the loaded job.
update_status_job(j, new_status) ==
  LET s == [j EXCEPT !.status = new_status]
  IN  CASE new_status = "VEHICLE_PICKED" ->
             [s EXCEPT !.actual_pickup_time = now]
        [] new_status = "DELIVERED" ->
             [s EXCEPT !.actual_delivery_time = now]
        [] new_status = "CLOSED" ->
             [s EXCEPT !.actual_completion_date = now]
        [] OTHER -> s

\* update_status writing the status it is given without consulting the
\* transition table.
update_status_unvalidated(new_status) ==
  /\ Len(audit) < MaxLog
  /\ job' = update_status_job(job, new_status)
  /\ updates' = Append(updates, _create_update(job.status, new_status))
  /\ audit' = Append(audit, _log_action("status_update",
                                        <<job.status, new_status>>))
  /\ result' = Response("update_status", "ok", job.status, new_status, 0)
  /\ UNCHANGED <<estimate_items, rfqs, quotes, payments, now, req>>

\* JobCardService.update_status(job_id, user, new_status), staff only.
update_status(new_status) ==
  LET old_status == job.status
  IN  IF new_status \notin _get_valid_transitions(old_status)
      THEN /\ result' = Response("update_status", "invalid_transition",
                                 old_status, new_status, 0)
           /\ UNCHANGED <<job, estimate_items, rfqs, quotes, payments,
                          updates, audit, now, req>>
      ELSE /\ Len(audit) < MaxLog
           /\ job' = update_status_job(job, new_status)
           /\ updates' = Append(updates, _create_update(old_status, new_status))
           /\ audit' = Append(audit, _log_action("status_update",
                                                 <<old_status, new_status>>))
           /\ result' = Response("update_status", "ok", old_status,
                                 new_status, 0)
           /\ UNCHANGED <<estimate_items, rfqs, quotes, payments, now, req>>

UpdateStatus == \E new_status \in JobStatus : update_status(new_status)

\* The estimates a service advisor enters: lists of (type, quantity, unit
\* price), a pickup/delivery fee and a VAT percentage.
Item(item_type, quantity, unit_price) ==
  [item_type |-> item_type, quantity |-> quantity, unit_price |-> unit_price]

\* Each input is <<items, pickup_delivery_fee, tax_rate>>.
EstimateInputs ==
  { <<(<<Item("labour", 1, 100)>>), 0, 5>>,
    <<(<<Item("labour", 1, 100), Item("labour", 2, 100),
         Item("part", 1, 200)>>), 0, 5>>,
    <<(<<Item("fee", 1, 20), Item("part", 1, 100)>>), 20, 5>> }

\* The estimate_items rows create_estimate inserts for the submitted items.
EstimateRows(items) ==
  [i \in 1..Len(items) |->
     [item_type |-> items[i].item_type,
      quantity |-> items[i].quantity,
      unit_price |-> items[i].unit_price,
      total_price |-> items[i].quantity * items[i].unit_price]]

\* Sum of total_price over the rows of one item type.
RECURSIVE TypeTotal(_, _)
TypeTotal(rows, item_type) ==
  IF rows = <<>> THEN 0
  ELSE (IF Head(rows).item_type = item_type THEN Head(rows).total_price ELSE 0)
       + TypeTotal(Tail(rows), item_type)

\* create_estimate taxing labour and parts and leaving the fee untaxed.
create_estimate_job_untaxed_fee(j, items, pickup_delivery_fee, tax_rate) ==
  LET rows == EstimateRows(items)
      labour_total == TypeTotal(rows, "labour")
      parts_total == TypeTotal(rows, "part")
      subtotal == labour_total + parts_total + pickup_delivery_fee
      tax_amount == ((labour_total + parts_total) * tax_rate) \div 100
      estimate_total == subtotal + tax_amount
      grand_total == estimate_total - j.discount_amount
  IN  [j EXCEPT !.labour_total = labour_total,
                !.parts_total = parts_total,
                !.pickup_delivery_fee = pickup_delivery_fee,
                !.tax_amount = tax_amount,
                !.estimate_total = estimate_total,
                !.grand_total = grand_total,
                !.balance_due = grand_total - j.amount_paid,
                !.status = IF j.status = "DIAGNOSED"
                           THEN "AWAITING_ESTIMATE_APPROVAL" ELSE j.status]

\* The columns create_estimate sets on the loaded job.
create_estimate_job(j, items, pickup_delivery_fee, tax_rate) ==
  LET rows == EstimateRows(items)
      labour_total == TypeTotal(rows, "labour")
      parts_total == TypeTotal(rows, "part")
      subtotal == labour_total + parts_total + pickup_delivery_fee
      tax_amount == (subtotal * tax_rate) \div 100
      estimate_total == subtotal + tax_amount
      grand_total == estimate_total - j.discount_amount
  IN  [j EXCEPT !.labour_total = labour_total,
                !.parts_total = parts_total,
                !.pickup_delivery_fee = pickup_delivery_fee,
                !.tax_amount = tax_amount,
                !.estimate_total = estimate_total,
                !.grand_total = grand_total,
                !.balance_due = grand_total - j.amount_paid,
                !.status = IF j.status = "DIAGNOSED"
                           THEN "AWAITING_ESTIMATE_APPROVAL" ELSE j.status]

\* JobCardService.create_estimate(job_id, user, data), staff only.
create_estimate(items, pickup_delivery_fee, tax_rate) ==
  /\ estimate_items' = EstimateRows(items)
  /\ job' = create_estimate_job(job, items, pickup_delivery_fee, tax_rate)
  /\ result' = Response("create_estimate", "ok", job.status, job'.status, 0)
  /\ UNCHANGED <<rfqs, quotes, payments, updates, audit, now, req>>

CreateEstimate ==
  \E data \in EstimateInputs : create_estimate(data[1], data[2], data[3])

\* approve_estimate sending every approved job to parts sourcing.
approve_estimate_job_always_parts(j, items, approved) ==
  IF ~approved
  THEN [j EXCEPT !.status = "CANCELLED"]
  ELSE [j EXCEPT !.estimate_approved_at = now,
                 !.status = "ESTIMATE_APPROVED"]

\* The columns approve_estimate sets on the loaded job.
approve_estimate_job(j, items, approved) ==
  IF ~approved
  THEN [j EXCEPT !.status = "CANCELLED"]
  ELSE LET has_parts == \E i \in 1..Len(items) : items[i].item_type = "part"
       IN  [j EXCEPT !.estimate_approved_at = now,
                     !.status = IF has_parts THEN "ESTIMATE_APPROVED"
                                ELSE "AWAITING_PAYMENT"]

\* JobCardService.approve_estimate(job_id, user, approved).
approve_estimate(approved) ==
  IF job.status # "AWAITING_ESTIMATE_APPROVAL"
  THEN /\ result' = Response("approve_estimate", "not_awaiting_approval",
                             job.status, "", 0)
       /\ UNCHANGED <<job, estimate_items, rfqs, quotes, payments, updates,
                      audit, now, req>>
  ELSE /\ Len(audit) < MaxLog
       /\ job' = approve_estimate_job(job, estimate_items, approved)
       /\ audit' = Append(audit, _log_action("estimate_approval",
                            <<IF approved THEN "approved" ELSE "rejected">>))
       /\ result' = Response("approve_estimate", "ok", job.status,
                             job'.status, 0)
       /\ UNCHANGED <<estimate_items, rfqs, quotes, payments, updates, now,
                      req>>

ApproveEstimate == \E approved \in BOOLEAN : approve_estimate(approved)

\* approve_parts stamping parts_approved_at on a rejection too.
approve_parts_job_stamp_always(j, approved) ==
  IF ~approved
  THEN [j EXCEPT !.parts_approved_at = now, !.status = "CANCELLED"]
  ELSE [j EXCEPT !.parts_approved_at = now, !.status = "AWAITING_PAYMENT"]

\* The columns approve_parts sets on the loaded job.
approve_parts_job(j, approved) ==
  IF ~approved
  THEN [j EXCEPT !.status = "CANCELLED"]
  ELSE [j EXCEPT !.parts_approved_at = now, !.status = "AWAITING_PAYMENT"]

\* JobCardService.approve_parts(job_id, user, approved).
approve_parts(approved) ==
  IF job.status # "AWAITING_PARTS_APPROVAL"
  THEN /\ result' = Response("approve_parts", "not_awaiting_approval",
                             job.status, "", 0)
       /\ UNCHANGED <<job, estimate_items, rfqs, quotes, payments, updates,
                      audit, now, req>>
  ELSE /\ Len(audit) < MaxLog
       /\ job' = approve_parts_job(job, approved)
       /\ audit' = Append(audit, _log_action("parts_approval",
                            <<IF approved THEN "approved" ELSE "rejected">>))
       /\ result' = Response("approve_parts", "ok", job.status,
                             job'.status, 0)
       /\ UNCHANGED <<estimate_items, rfqs, quotes, payments, updates, now,
                      req>>

ApproveParts == \E approved \in BOOLEAN : approve_parts(approved)

\* JobCardService.submit_feedback(job_id, user, rating, feedback).
submit_feedback ==
  IF job.status \notin {"DELIVERED", "CLOSED"}
  THEN /\ result' = Response("submit_feedback", "not_delivered",
                             job.status, "", 0)
       /\ UNCHANGED <<job, estimate_items, rfqs, quotes, payments, updates,
                      audit, now, req>>
  ELSE /\ job' = [job EXCEPT !.status = IF job.status = "DELIVERED"
                                        THEN "CLOSED" ELSE job.status]
       /\ result' = Response("submit_feedback", "ok", job.status,
                             job'.status, 0)
       /\ UNCHANGED <<estimate_items, rfqs, quotes, payments, updates, audit,
                      now, req>>

\* ------------------------------------------------------------- RFQService
\* A user with the vendor role whose is_active flag is False.
InactiveVendor == 0

\* The vendor-role users with is_active = True, in table order.
ActiveVendors == Vendors

\* settings.MAX_RFQ_VENDORS
MAX_RFQ_VENDORS == 5

\* The quote_deadline a caller passes to create_rfq (None: use the default).
DeadlineInputs == {None, 1}

\* timedelta(days=2) of the default deadline, in ticks of the model clock.
DefaultDeadlineDelay == 2

\* Subtotals of the line items a vendor submits, and the delivery days.
QuoteSubtotalInputs == {100}
DeliveryDaysInputs == {3}

\* Ids of the rows of a table.
Ids(table) == 1..Len(table)

\* The quotes relationship of an RFQ: ids of its vendor_quotes rows.
QuotesOf(qs, rfq_id) == {q \in Ids(qs) : qs[q].rfq_id = rfq_id}

\* RFQCreate.selection_rule and RFQCreate.max_delivery_days when the caller
\* leaves them out.
DefaultSelectionRule == "cheapest_available"
DefaultMaxDeliveryDays == 7

\* RFQService.create_rfq(job_id, user, data), staff only, with the fields of
\* data spelled out.
create_rfq_data(quote_deadline, selection_rule, max_delivery_days) ==
  IF job.status \notin {"ESTIMATE_APPROVED", "RFQ_SENT"}
  THEN /\ result' = Response("create_rfq", "job_not_ready", job.status, "", 0)
       /\ UNCHANGED <<job, estimate_items, rfqs, quotes, payments, updates,
                      audit, now, req>>
  ELSE /\ Len(rfqs) < MaxRfqs
       /\ rfqs' = Append(rfqs,
            [status |-> "DRAFT",
             quote_deadline |-> IF quote_deadline # None THEN quote_deadline
                                ELSE now + DefaultDeadlineDelay,
             selection_rule |-> selection_rule,
             max_delivery_days |-> max_delivery_days,
             sent_at |-> None,
             selected_quote_id |-> 0,
             selected_at |-> None])
       /\ result' = Response("create_rfq", "ok", "", "", Len(rfqs) + 1)
       /\ UNCHANGED <<job, estimate_items, quotes, payments, updates, audit,
                      now, req>>

\* create_rfq with the default selection policy and delivery constraint.
create_rfq(quote_deadline) ==
  create_rfq_data(quote_deadline, DefaultSelectionRule,
                  DefaultMaxDeliveryDays)

CreateRfq == \E quote_deadline \in DeadlineInputs : create_rfq(quote_deadline)

\* The vendors send_rfq resolves: the active ones among vendor_ids, or the
\* first MAX_RFQ_VENDORS active vendors when no ids are given.
ResolveVendors(vendor_ids) ==
  IF vendor_ids # {}
  THEN vendor_ids \cap ActiveVendors
  ELSE {v \in ActiveVendors : v <= MAX_RFQ_VENDORS}

\* A set of vendors as the list the query returns.
RECURSIVE VendorList(_)
VendorList(vs) ==
  IF vs = {} THEN <<>>
  ELSE LET v == CHOOSE x \in vs : \A y \in vs : x <= y
       IN  <<v>> \o VendorList(vs \ {v})

\* The PENDING placeholder rows send_rfq adds, one per resolved vendor.
Placeholders(rfq_id, vendors) ==
  [i \in 1..Len(vendors) |->
     [rfq_id |-> rfq_id, vendor_id |-> vendors[i], status |-> "PENDING",
      total_amount |-> 0, delivery_days |-> 0, submitted_at |-> None]]

\* send_rfq moving the job to RFQ_SENT whatever its status.
send_rfq_job_always_sent(j) == [j EXCEPT !.status = "RFQ_SENT"]

\* The job status send_rfq leaves.
send_rfq_job(j) ==
  IF j.status = "ESTIMATE_APPROVED" THEN [j EXCEPT !.status = "RFQ_SENT"]
  ELSE j

\* RFQService.send_rfq(rfq_id, user, vendor_ids), staff only.
send_rfq(rfq_id, vendor_ids) ==
  IF rfq_id \notin Ids(rfqs)
  THEN /\ result' = Response("send_rfq", "not_found", "", "", rfq_id)
       /\ UNCHANGED <<job, estimate_items, rfqs, quotes, payments, updates,
                      audit, now, req>>
  ELSE IF rfqs[rfq_id].status # "DRAFT"
  THEN /\ result' = Response("send_rfq", "already_sent", "", "", rfq_id)
       /\ UNCHANGED <<job, estimate_items, rfqs, quotes, payments, updates,
                      audit, now, req>>
  ELSE IF ResolveVendors(vendor_ids) = {}
  THEN /\ result' = Response("send_rfq", "no_vendors", "", "", rfq_id)
       /\ UNCHANGED <<job, estimate_items, rfqs, quotes, payments, updates,
                      audit, now, req>>
  ELSE /\ quotes' = quotes \o
                    Placeholders(rfq_id, VendorList(ResolveVendors(vendor_ids)))
       /\ rfqs' = [rfqs EXCEPT ![rfq_id].status = "SENT",
                               ![rfq_id].sent_at = now]
       /\ job' = send_rfq_job(job)
       /\ result' = Response("send_rfq", "ok", job.status, job'.status, rfq_id)
       /\ UNCHANGED <<estimate_items, payments, updates, audit, now, req>>

SendRfq ==
  \E rfq_id \in 1..MaxRfqs, vendor_ids \in SUBSET (Vendors \cup {InactiveVendor}) :
    send_rfq(rfq_id, vendor_ids)

\* The columns RFQService.submit_quote sets on the vendor's quote row.
submit_quote_row(q, subtotal, delivery_days) ==
  LET tax_amount == (subtotal * 5) \div 100
  IN  [q EXCEPT !.total_amount = subtotal + tax_amount,
                !.delivery_days = delivery_days,
                !.status = "SUBMITTED",
                !.submitted_at = now]

\* The check satisfied as soon as one quote of the RFQ is in.
any_submitted(qs, rfq_id) ==
  \E q \in QuotesOf(qs, rfq_id) : qs[q].status # "PENDING"

\* The check "all quotes received" over the quotes of the RFQ as the
\* session sees them.
all_submitted(qs, rfq_id) ==
  \A q \in QuotesOf(qs, rfq_id) : qs[q].status # "PENDING"

\* The RFQ status submit_quote leaves.
submit_quote_rfq(r, all_in) ==
  IF all_in THEN [r EXCEPT !.status = "QUOTES_RECEIVED"] ELSE r

\* The job status submit_quote leaves.
submit_quote_job(j, all_in) ==
  IF all_in /\ j.status = "RFQ_SENT"
  THEN [j EXCEPT !.status = "QUOTES_RECEIVED"] ELSE j

\* RFQService.submit_quote(rfq_id, vendor, data), reached by
\* POST /vendor/rfqs/{rfq_id}/quote of api/rfq.py.
submit_quote(rfq_id, vendor, subtotal, delivery_days) ==
  LET mine == {q \in QuotesOf(quotes, rfq_id) : quotes[q].vendor_id = vendor}
  IN  IF mine = {}
      THEN /\ result' = Response("submit_quote", "not_invited", "", "", 0)
           /\ UNCHANGED <<job, estimate_items, rfqs, quotes, payments,
                          updates, audit, now, req>>
      ELSE \E q \in mine :
             IF quotes[q].status \notin {"PENDING", "SUBMITTED"}
             THEN /\ result' = Response("submit_quote", "cannot_modify",
                                        "", "", q)
                  /\ UNCHANGED <<job, estimate_items, rfqs, quotes, payments,
                                 updates, audit, now, req>>
             ELSE LET qs == [quotes EXCEPT
                               ![q] = submit_quote_row(@, subtotal,
                                                       delivery_days)]
                      all_in == all_submitted(qs, rfq_id)
                  IN  /\ quotes' = qs
                      /\ rfqs' = [rfqs EXCEPT
                                    ![rfq_id] = submit_quote_rfq(@, all_in)]
                      /\ job' = submit_quote_job(job, all_in)
                      /\ result' = Response("submit_quote", "ok", job.status,
                                            job'.status, q)
                      /\ UNCHANGED <<estimate_items, payments, updates,
                                     audit, now, req>>

SubmitQuote ==
  \E rfq_id \in 1..MaxRfqs, vendor \in Vendors,
     subtotal \in QuoteSubtotalInputs, delivery_days \in DeliveryDaysInputs :
    submit_quote(rfq_id, vendor, subtotal, delivery_days)

\* submit_quote of api/vendor.py: inserts a SUBMITTED quote for a vendor
\* that has no row on the RFQ yet.
vendor_submit_quote(rfq_id, vendor, total_amount, delivery_days) ==
  IF rfq_id \notin Ids(rfqs)
  THEN /\ result' = Response("vendor_submit_quote", "not_found", "", "", 0)
       /\ UNCHANGED <<job, estimate_items, rfqs, quotes, payments, updates,
                      audit, now, req>>
  ELSE IF rfqs[rfq_id].status \notin {"SENT", "QUOTES_RECEIVED"}
  THEN /\ result' = Response("vendor_submit_quote", "not_accepting",
                             "", "", 0)
       /\ UNCHANGED <<job, estimate_items, rfqs, quotes, payments, updates,
                      audit, now, req>>
  ELSE IF rfqs[rfq_id].quote_deadline # None
          /\ rfqs[rfq_id].quote_deadline < now
  THEN /\ result' = Response("vendor_submit_quote", "deadline_passed",
                             "", "", 0)
       /\ UNCHANGED <<job, estimate_items, rfqs, quotes, payments, updates,
                      audit, now, req>>
  ELSE IF \E q \in QuotesOf(quotes, rfq_id) : quotes[q].vendor_id = vendor
  THEN /\ result' = Response("vendor_submit_quote", "already_submitted",
                             "", "", 0)
       /\ UNCHANGED <<job, estimate_items, rfqs, quotes, payments, updates,
                      audit, now, req>>
  ELSE /\ quotes' = Append(quotes,
            [rfq_id |-> rfq_id, vendor_id |-> vendor, status |-> "SUBMITTED",
             total_amount |-> total_amount, delivery_days |-> delivery_days,
             submitted_at |-> now])
       /\ result' = Response("vendor_submit_quote", "ok", "", "",
                             Len(quotes) + 1)
       /\ UNCHANGED <<job, estimate_items, rfqs, payments, updates, audit,
                      now, req>>

VendorSubmitQuote ==
  \E rfq_id \in 1..MaxRfqs, vendor \in Vendors,
     total_amount \in QuoteSubtotalInputs,
     delivery_days \in DeliveryDaysInputs :
    vendor_submit_quote(rfq_id, vendor, total_amount, delivery_days)

\* select_quote rejecting every other quote of the RFQ, whatever its status.
select_quote_quotes_reject_all(qs, rfq_id, quote_id) ==
  [q \in Ids(qs) |->
     IF qs[q].rfq_id # rfq_id THEN qs[q]
     ELSE IF q = quote_id THEN [qs[q] EXCEPT !.status = "SELECTED"]
     ELSE [qs[q] EXCEPT !.status = "REJECTED"]]

\* The quote statuses select_quote leaves on the quotes of the RFQ.
select_quote_quotes(qs, rfq_id, quote_id) ==
  [q \in Ids(qs) |->
     IF qs[q].rfq_id # rfq_id THEN qs[q]
     ELSE IF q = quote_id THEN [qs[q] EXCEPT !.status = "SELECTED"]
     ELSE IF qs[q].status = "SUBMITTED"
          THEN [qs[q] EXCEPT !.status = "REJECTED"]
          ELSE qs[q]]

\* select_quote replacing parts_total and keeping the totals of the estimate.
select_quote_job_stale_total(j, total_amount) ==
  [j EXCEPT !.parts_total = total_amount,
            !.status = "AWAITING_PARTS_APPROVAL"]

\* The columns select_quote sets on the job of the RFQ.
select_quote_job(j, total_amount) ==
  LET grand_total == j.labour_total + total_amount + j.pickup_delivery_fee
                     + j.tax_amount - j.discount_amount
  IN  [j EXCEPT !.parts_total = total_amount,
                !.grand_total = grand_total,
                !.balance_due = grand_total - j.amount_paid,
                !.status = "AWAITING_PARTS_APPROVAL"]

\* RFQService.select_quote(rfq_id, user, data), staff only.
select_quote(rfq_id, quote_id) ==
  IF rfq_id \notin Ids(rfqs)
  THEN /\ result' = Response("select_quote", "not_found", "", "", 0)
       /\ UNCHANGED <<job, estimate_items, rfqs, quotes, payments, updates,
                      audit, now, req>>
  ELSE IF rfqs[rfq_id].status \notin {"QUOTES_RECEIVED", "SENT"}
  THEN /\ result' = Response("select_quote", "not_ready", "", "", 0)
       /\ UNCHANGED <<job, estimate_items, rfqs, quotes, payments, updates,
                      audit, now, req>>
  ELSE IF ~(/\ quote_id \in QuotesOf(quotes, rfq_id)
            /\ quotes[quote_id].status = "SUBMITTED")
  THEN /\ result' = Response("select_quote", "quote_not_submitted",
                             "", "", 0)
       /\ UNCHANGED <<job, estimate_items, rfqs, quotes, payments, updates,
                      audit, now, req>>
  ELSE /\ quotes' = select_quote_quotes(quotes, rfq_id, quote_id)
       /\ rfqs' = [rfqs EXCEPT ![rfq_id].selected_quote_id = quote_id,
                               ![rfq_id].selected_at = now,
                               ![rfq_id].status = "QUOTE_SELECTED"]
       /\ job' = select_quote_job(job, quotes[quote_id].total_amount)
       /\ result' = Response("select_quote", "ok", job.status, job'.status,
                             quote_id)
       /\ UNCHANGED <<estimate_items, payments, updates, audit, now, req>>

\* The orders in which a query without ORDER BY can return the rows ids.
Orderings(ids) ==
  {o \in [1..Cardinality(ids) -> ids] :
     \A i, k \in 1..Cardinality(ids) : i # k => o[i] # o[k]}

\* The selection policies auto_select_quote sorts by on the quote columns.
SelectionRules == {"cheapest_available", "fastest"}

\* The key function of valid_quotes.sort for a rule; under any other rule
\* the list is not sorted.
SortKey(rule, q) ==
  CASE rule = "cheapest_available" -> <<q.total_amount, q.delivery_days>>
    [] rule = "fastest" -> <<q.delivery_days, q.total_amount>>
    [] OTHER -> <<0, 0>>

\* Python's order on the key tuples.
KeyLess(a, b) == a[1] < b[1] \/ (a[1] = b[1] /\ a[2] < b[2])

\* list.sort is stable: an element goes behind those whose key is not
\* greater.
RECURSIVE InsertQuote(_, _, _, _)
InsertQuote(sorted, q, qs, rule) ==
  IF sorted = <<>> THEN <<q>>
  ELSE IF KeyLess(SortKey(rule, qs[q]), SortKey(rule, qs[Head(sorted)]))
       THEN <<q>> \o sorted
       ELSE <<Head(sorted)>> \o InsertQuote(Tail(sorted), q, qs, rule)

RECURSIVE SortQuotes(_, _, _)
SortQuotes(ids, qs, rule) ==
  IF ids = <<>> THEN <<>>
  ELSE InsertQuote(SortQuotes(SubSeq(ids, 1, Len(ids) - 1), qs, rule),
                   ids[Len(ids)], qs, rule)

\* valid_quotes keeping every SUBMITTED quote, whatever its delivery days.
valid_quotes_any_delivery(qs, r, order) ==
  SelectSeq(order, LAMBDA q : qs[q].status = "SUBMITTED")

\* valid_quotes: the SUBMITTED quotes that meet the delivery constraint, in
\* the order the quotes relationship returned them.
valid_quotes(qs, r, order) ==
  SelectSeq(order, LAMBDA q : /\ qs[q].status = "SUBMITTED"
                              /\ qs[q].delivery_days <= r.max_delivery_days)

\* The id of the quote auto_select_quote returns on RFQ row r whose quotes
\* were loaded in `order`; 0 for None.
auto_select_quote_result(qs, r, order) ==
  IF r.status # "QUOTES_RECEIVED" THEN 0
  ELSE IF valid_quotes(qs, r, order) = <<>> THEN 0
  ELSE Head(SortQuotes(valid_quotes(qs, r, order), qs, r.selection_rule))

\* RFQService.auto_select_quote(rfq_id): a read-only query.
auto_select_quote(rfq_id) ==
  /\ IF rfq_id \notin Ids(rfqs)
     THEN result' = Response("auto_select_quote", "ok", "", "", 0)
     ELSE \E order \in Orderings(QuotesOf(quotes, rfq_id)) :
            result' = Response("auto_select_quote", "ok", "", "",
                        auto_select_quote_result(quotes, rfqs[rfq_id], order))
  /\ UNCHANGED <<job, estimate_items, rfqs, quotes, payments, updates, audit,
                 now, req>>

AutoSelectQuote == \E rfq_id \in 1..MaxRfqs : auto_select_quote(rfq_id)

\* The quote ids a caller can name: one per row the bounds allow.
MaxQuotes == MaxRfqs * (NumVendors + 1)

SelectQuote ==
  \E rfq_id \in 1..MaxRfqs, quote_id \in 1..MaxQuotes :
    select_quote(rfq_id, quote_id)

\* --------------------------------------------------------- PaymentService
\* Amounts of the payments entered (PaymentCreate.amount > 0).
PayAmounts == {55}

\* record_cash_payment marking every job with a balance as PARTIALLY_PAID.
record_cash_payment_job_always_partial(j, amount) ==
  LET amount_paid == j.amount_paid + amount
      balance_due == j.grand_total - amount_paid
  IN  [j EXCEPT !.amount_paid = amount_paid,
                !.balance_due = balance_due,
                !.status = IF balance_due <= 0 THEN "PAID"
                           ELSE "PARTIALLY_PAID"]

\* The ledger columns and the status a payment of `amount` leaves on the
\* loaded job (record_cash_payment).
record_cash_payment_job(j, amount) ==
  LET amount_paid == j.amount_paid + amount
      balance_due == j.grand_total - amount_paid
  IN  [j EXCEPT !.amount_paid = amount_paid,
                !.balance_due = balance_due,
                !.status = IF balance_due <= 0 THEN "PAID"
                           ELSE IF j.status = "AWAITING_PAYMENT"
                                THEN "PARTIALLY_PAID" ELSE j.status]

\* The same for confirm_online_payment.
confirm_online_payment_job(j, amount) ==
  LET amount_paid == j.amount_paid + amount
      balance_due == j.grand_total - amount_paid
  IN  [j EXCEPT !.amount_paid = amount_paid,
                !.balance_due = balance_due,
                !.status = IF balance_due <= 0 THEN "PAID"
                           ELSE IF j.status = "AWAITING_PAYMENT"
                                THEN "PARTIALLY_PAID" ELSE j.status]

\* The same for the payment_intent.succeeded branch of stripe_webhook.
stripe_webhook_job(j, amount) ==
  LET amount_paid == j.amount_paid + amount
      balance_due == j.grand_total - amount_paid
  IN  [j EXCEPT !.amount_paid = amount_paid,
                !.balance_due = balance_due,
                !.status = IF balance_due <= 0 THEN "PAID"
                           ELSE IF j.status = "AWAITING_PAYMENT"
                                THEN "PARTIALLY_PAID" ELSE j.status]

\* PaymentService.create_payment_link(job_id, user, data), staff only.
create_payment_link(amount) ==
  /\ Len(payments) < MaxPayments
  /\ payments' = Append(payments, [amount |-> amount, status |-> "PENDING",
                                   payment_method |-> "PAYMENT_LINK"])
  /\ result' = Response("create_payment_link", "ok", "", "",
                        Len(payments) + 1)
  /\ UNCHANGED <<job, estimate_items, rfqs, quotes, updates, audit, now, req>>

CreatePaymentLink == \E amount \in PayAmounts : create_payment_link(amount)

\* PaymentService.record_cash_payment(job_id, user, data), staff only.
record_cash_payment(amount) ==
  /\ Len(payments) < MaxPayments
  /\ payments' = Append(payments, [amount |-> amount, status |-> "COMPLETED",
                                   payment_method |-> "CASH"])
  /\ job' = record_cash_payment_job(job, amount)
  /\ result' = Response("record_cash_payment", "ok", job.status, job'.status,
                        Len(payments) + 1)
  /\ UNCHANGED <<estimate_items, rfqs, quotes, updates, audit, now, req>>

RecordCashPayment == \E amount \in PayAmounts : record_cash_payment(amount)

\* confirm_online_payment without the check of the payment status.
confirm_online_payment_unchecked(payment_id) ==
  IF payment_id \notin Ids(payments)
  THEN /\ result' = Response("confirm_online_payment", "not_found",
                             "", "", 0)
       /\ UNCHANGED <<job, estimate_items, rfqs, quotes, payments, updates,
                      audit, now, req>>
  ELSE /\ payments' = [payments EXCEPT ![payment_id].status = "COMPLETED"]
       /\ job' = confirm_online_payment_job(job, payments[payment_id].amount)
       /\ result' = Response("confirm_online_payment", "ok", job.status,
                             job'.status, payment_id)
       /\ UNCHANGED <<estimate_items, rfqs, quotes, updates, audit, now, req>>

\* PaymentService.confirm_online_payment(payment_id, gateway_response).
confirm_online_payment(payment_id) ==
  IF payment_id \notin Ids(payments)
  THEN /\ result' = Response("confirm_online_payment", "not_found",
                             "", "", 0)
       /\ UNCHANGED <<job, estimate_items, rfqs, quotes, payments, updates,
                      audit, now, req>>
  ELSE IF payments[payment_id].status # "PENDING"
  THEN /\ result' = Response("confirm_online_payment", "already_processed",
                             "", "", payment_id)
       /\ UNCHANGED <<job, estimate_items, rfqs, quotes, payments, updates,
                      audit, now, req>>
  ELSE /\ payments' = [payments EXCEPT ![payment_id].status = "COMPLETED"]
       /\ job' = confirm_online_payment_job(job, payments[payment_id].amount)
       /\ result' = Response("confirm_online_payment", "ok", job.status,
                             job'.status, payment_id)
       /\ UNCHANGED <<estimate_items, rfqs, quotes, updates, audit, now, req>>

ConfirmOnlinePayment ==
  \E payment_id \in 1..MaxPayments : confirm_online_payment(payment_id)

\* ------------------------------------------------- NotificationService
\* create_notification adds a row and commits; the commit (or the WhatsApp
\* adapter) either goes through or raises.
NotificationOutcomes == {"sent", "raised"}

\* What the caller of a handler receives when the handler's last statement
\* is a notification: nothing catches an exception of create_notification,
\* so it leaves the handler in place of the return value.
Notify(response, notification) ==
  IF notification = "raised"
  THEN [response EXCEPT !.outcome = "server_error"]
  ELSE response

\* JobCardService.update_status with the outcome of notify_status_change
\* (line 245), which runs after the commits of lines 236-242.
update_status_notify(new_status, notification) ==
  LET old_status == job.status
  IN  IF new_status \notin _get_valid_transitions(old_status)
      THEN /\ result' = Response("update_status", "invalid_transition",
                                 old_status, new_status, 0)
           /\ UNCHANGED <<job, estimate_items, rfqs, quotes, payments,
                          updates, audit, now, req>>
      ELSE /\ Len(audit) < MaxLog
           /\ job' = update_status_job(job, new_status)
           /\ updates' = Append(updates, _create_update(old_status, new_status))
           /\ audit' = Append(audit, _log_action("status_update",
                                                 <<old_status, new_status>>))
           /\ result' = Notify(Response("update_status", "ok", old_status,
                                        new_status, 0), notification)
           /\ UNCHANGED <<estimate_items, rfqs, quotes, payments, now, req>>

\* PaymentService.record_cash_payment with the outcome of
\* notify_payment_received (line 139), which runs after the commit of
\* line 135.
record_cash_payment_notify(amount, notification) ==
  /\ Len(payments) < MaxPayments
  /\ payments' = Append(payments, [amount |-> amount, status |-> "COMPLETED",
                                   payment_method |-> "CASH"])
  /\ job' = record_cash_payment_job(job, amount)
  /\ result' = Notify(Response("record_cash_payment", "ok", job.status,
                               job'.status, Len(payments) + 1), notification)
  /\ UNCHANGED <<estimate_items, rfqs, quotes, updates, audit, now, req>>

\* ------------------------------------------------------------ api/webhooks
EventTypes == {"payment_intent.succeeded", "payment_intent.payment_failed"}

\* stripe_webhook: POST /webhooks/stripe with an event for payment_id.  The
\* succeeded branch ends, after its commit, in NotificationService(db,
\* org_id=...), which the constructor NotificationService(db) rejects: the
\* delivery is answered with a server error.
stripe_webhook(event_type, payment_id) ==
  IF payment_id \in Ids(payments) /\ payments[payment_id].status = "PENDING"
  THEN IF event_type = "payment_intent.succeeded"
       THEN /\ payments' = [payments EXCEPT ![payment_id].status = "COMPLETED"]
            /\ job' = stripe_webhook_job(job, payments[payment_id].amount)
            /\ result' = Response("stripe_webhook", "server_error",
                                  job.status, job'.status, payment_id)
            /\ UNCHANGED <<estimate_items, rfqs, quotes, updates, audit, now,
                           req>>
       ELSE /\ payments' = [payments EXCEPT ![payment_id].status = "FAILED"]
            /\ result' = Response("stripe_webhook", "ok", "", "", payment_id)
            /\ UNCHANGED <<job, estimate_items, rfqs, quotes, updates, audit,
                           now, req>>
  ELSE /\ result' = Response("stripe_webhook", "ok", "", "", 0)
       /\ UNCHANGED <<job, estimate_items, rfqs, quotes, payments, updates,
                      audit, now, req>>

StripeWebhook ==
  \E event_type \in EventTypes, payment_id \in 1..MaxPayments :
    stripe_webhook(event_type, payment_id)

\* -------------------------------------------------------------- api/driver
\* start_delivery: POST /driver/{job_id}/start-delivery.  Like the webhook
\* it fails in NotificationService(db, org_id=...) after its commit.
start_delivery ==
  IF job.status # "READY"
  THEN /\ result' = Response("start_delivery", "not_ready", job.status,
                             "", 0)
       /\ UNCHANGED <<job, estimate_items, rfqs, quotes, payments, updates,
                      audit, now, req>>
  ELSE /\ job' = [job EXCEPT !.status = "OUT_FOR_DELIVERY"]
       /\ result' = Response("start_delivery", "server_error", job.status,
                             "OUT_FOR_DELIVERY", 0)
       /\ UNCHANGED <<estimate_items, rfqs, quotes, payments, updates, audit,
                      now, req>>

\* The cash a driver reports on delivery (0: none).
CashInputs == {0} \cup PayAmounts

\* confirm_delivery adding the cash and keeping the balance.
confirm_delivery_job_stale_balance(j, cash_collected) ==
  LET d == [j EXCEPT !.status = "DELIVERED"]
  IN  IF cash_collected > 0
      THEN [d EXCEPT !.amount_paid = j.amount_paid + cash_collected]
      ELSE d

\* The columns confirm_delivery sets on the loaded job.
confirm_delivery_job(j, cash_collected) ==
  LET d == [j EXCEPT !.status = "DELIVERED"]
  IN  IF cash_collected > 0
      THEN [d EXCEPT !.amount_paid = j.amount_paid + cash_collected,
                     !.balance_due = j.grand_total
                                     - (j.amount_paid + cash_collected)]
      ELSE d

\* confirm_delivery: POST /driver/{job_id}/confirm-delivery.
confirm_delivery(cash_collected) ==
  IF job.status # "OUT_FOR_DELIVERY"
  THEN /\ result' = Response("confirm_delivery", "invalid_status",
                             job.status, "", 0)
       /\ UNCHANGED <<job, estimate_items, rfqs, quotes, payments, updates,
                      audit, now, req>>
  ELSE /\ cash_collected > 0 => Len(payments) < MaxPayments
       /\ job' = confirm_delivery_job(job, cash_collected)
       /\ payments' = IF cash_collected > 0
                      THEN Append(payments, [amount |-> cash_collected,
                                             status |-> "COMPLETED",
                                             payment_method |-> "CASH"])
                      ELSE payments
       /\ result' = Response("confirm_delivery", "server_error", job.status,
                             "DELIVERED", 0)
       /\ UNCHANGED <<estimate_items, rfqs, quotes, updates, audit, now, req>>

ConfirmDelivery ==
  \E cash_collected \in CashInputs : confirm_delivery(cash_collected)

\* ------------------------------------------------- sessions and commits
\* Session.commit() on a loaded row: the UPDATE carries the columns whose
\* value differs from the value loaded, and leaves the others as they are
\* in the table now.
Flush(row, loaded, local) ==
  [f \in DOMAIN row |-> IF local[f] # loaded[f] THEN local[f] ELSE row[f]]

\* The request of process p returns and its session is closed.
Finish(p) == req' = [req EXCEPT ![p] = IdleReq]

AllIdle == \A p \in Procs : req[p].op = "idle"

\* record_cash_payment, statement by statement.
\* Line 103: the job is loaded.
cash_load_job(p, amount) ==
  /\ req[p].op = "idle"
  /\ req' = [req EXCEPT ![p] = [op |-> "record_cash_payment",
                                pc |-> "commit", amount |-> amount,
                                job |-> job]]
  /\ UNCHANGED <<job, estimate_items, rfqs, quotes, payments, updates, audit,
                 now, result>>

\* Line 135: the new payment and the changed job columns are written.
cash_commit(p) ==
  /\ req[p].op = "record_cash_payment" /\ req[p].pc = "commit"
  /\ Len(payments) < MaxPayments
  /\ payments' = Append(payments, [amount |-> req[p].amount,
                                   status |-> "COMPLETED",
                                   payment_method |-> "CASH"])
  /\ job' = Flush(job, req[p].job,
                  record_cash_payment_job(req[p].job, req[p].amount))
  /\ Finish(p)
  /\ UNCHANGED <<estimate_items, rfqs, quotes, updates, audit, now, result>>

\* confirm_online_payment, statement by statement.
\* Lines 149-167: the payment is loaded and checked.
confirm_load_payment(p, payment_id) ==
  /\ req[p].op = "idle"
  /\ payment_id \in Ids(payments)
  /\ IF payments[payment_id].status # "PENDING"
     THEN UNCHANGED req
     ELSE req' = [req EXCEPT ![p] = [op |-> "confirm_online_payment",
                                     pc |-> "load_job",
                                     payment_id |-> payment_id,
                                     payment |-> payments[payment_id]]]
  /\ UNCHANGED <<job, estimate_items, rfqs, quotes, payments, updates, audit,
                 now, result>>

\* Line 170: payment.job_card is loaded.
confirm_load_job(p) ==
  /\ req[p].op = "confirm_online_payment" /\ req[p].pc = "load_job"
  /\ req' = [req EXCEPT ![p] = [op |-> "confirm_online_payment",
                                pc |-> "commit",
                                payment_id |-> req[p].payment_id,
                                payment |-> req[p].payment,
                                job |-> job]]
  /\ UNCHANGED <<job, estimate_items, rfqs, quotes, payments, updates, audit,
                 now, result>>

\* Line 180: the payment and the job are written.
confirm_commit(p) ==
  /\ req[p].op = "confirm_online_payment" /\ req[p].pc = "commit"
  /\ payments' = [payments EXCEPT ![req[p].payment_id] =
                    Flush(@, req[p].payment,
                          [req[p].payment EXCEPT !.status = "COMPLETED"])]
  /\ job' = Flush(job, req[p].job,
                  confirm_online_payment_job(req[p].job, req[p].payment.amount))
  /\ Finish(p)
  /\ UNCHANGED <<estimate_items, rfqs, quotes, updates, audit, now, result>>

\* stripe_webhook with a payment_intent.succeeded event, statement by
\* statement.  Lines 44-50: the payment is loaded and checked.
webhook_load_payment(p, payment_id) ==
  /\ req[p].op = "idle"
  /\ payment_id \in Ids(payments)
  /\ IF payments[payment_id].status # "PENDING"
     THEN UNCHANGED req
     ELSE req' = [req EXCEPT ![p] = [op |-> "stripe_webhook",
                                     pc |-> "load_job",
                                     payment_id |-> payment_id,
                                     payment |-> payments[payment_id]]]
  /\ UNCHANGED <<job, estimate_items, rfqs, quotes, payments, updates, audit,
                 now, result>>

\* Line 53: payment.job_card is loaded.
webhook_load_job(p) ==
  /\ req[p].op = "stripe_webhook" /\ req[p].pc = "load_job"
  /\ req' = [req EXCEPT ![p] = [op |-> "stripe_webhook", pc |-> "commit",
                                payment_id |-> req[p].payment_id,
                                payment |-> req[p].payment,
                                job |-> job]]
  /\ UNCHANGED <<job, estimate_items, rfqs, quotes, payments, updates, audit,
                 now, result>>

\* Line 61: the payment and the job are written.
webhook_commit(p) ==
  /\ req[p].op = "stripe_webhook" /\ req[p].pc = "commit"
  /\ payments' = [payments EXCEPT ![req[p].payment_id] =
                    Flush(@, req[p].payment,
                          [req[p].payment EXCEPT !.status = "COMPLETED"])]
  /\ job' = Flush(job, req[p].job,
                  stripe_webhook_job(req[p].job, req[p].payment.amount))
  /\ Finish(p)
  /\ UNCHANGED <<estimate_items, rfqs, quotes, updates, audit, now, result>>

\* RFQService.submit_quote, statement by statement.
\* Lines 175-209: the quote of the vendor is loaded, checked and filled in.
submit_load_quote(p, rfq_id, vendor, subtotal, delivery_days) ==
  LET mine == {q \in QuotesOf(quotes, rfq_id) : quotes[q].vendor_id = vendor}
  IN  /\ req[p].op = "idle"
      /\ IF mine = {}
         THEN UNCHANGED req
         ELSE \E q \in mine :
                IF quotes[q].status \notin {"PENDING", "SUBMITTED"}
                THEN UNCHANGED req
                ELSE req' = [req EXCEPT ![p] =
                       [op |-> "submit_quote", pc |-> "load_rfq",
                        rfq_id |-> rfq_id, quote_id |-> q,
                        quote |-> quotes[q],
                        filled |-> submit_quote_row(quotes[q], subtotal,
                                                    delivery_days)]]
      /\ UNCHANGED <<job, estimate_items, rfqs, quotes, payments, updates,
                     audit, now, result>>

\* Line 212: quote.rfq is loaded.
submit_load_rfq(p) ==
  /\ req[p].op = "submit_quote" /\ req[p].pc = "load_rfq"
  /\ req' = [req EXCEPT ![p] =
       [op |-> "submit_quote", pc |-> "load_quotes",
        rfq_id |-> req[p].rfq_id, quote_id |-> req[p].quote_id,
        quote |-> req[p].quote, filled |-> req[p].filled,
        rfq |-> rfqs[req[p].rfq_id]]]
  /\ UNCHANGED <<job, estimate_items, rfqs, quotes, payments, updates, audit,
                 now, result>>

\* Line 213: rfq.quotes is loaded; the session keeps its own filled-in row
\* and sees the other rows as they are committed.
submit_load_quotes(p) ==
  /\ req[p].op = "submit_quote" /\ req[p].pc = "load_quotes"
  /\ LET seen == [quotes EXCEPT ![req[p].quote_id] = req[p].filled]
         all_in == all_submitted(seen, req[p].rfq_id)
     IN  req' = [req EXCEPT ![p] =
           [op |-> "submit_quote",
            pc |-> IF all_in THEN "load_job" ELSE "commit",
            rfq_id |-> req[p].rfq_id, quote_id |-> req[p].quote_id,
            quote |-> req[p].quote, filled |-> req[p].filled,
            rfq |-> req[p].rfq, all_in |-> all_in, job |-> create_booking]]
  /\ UNCHANGED <<job, estimate_items, rfqs, quotes, payments, updates, audit,
                 now, result>>

\* Line 218: rfq.job_card is loaded.
submit_load_job(p) ==
  /\ req[p].op = "submit_quote" /\ req[p].pc = "load_job"
  /\ req' = [req EXCEPT ![p].pc = "commit", ![p].job = job]
  /\ UNCHANGED <<job, estimate_items, rfqs, quotes, payments, updates, audit,
                 now, result>>

\* Line 222: the quote, and the RFQ and the job if they changed, are
\* written.
submit_commit(p) ==
  /\ req[p].op = "submit_quote" /\ req[p].pc = "commit"
  /\ quotes' = [quotes EXCEPT ![req[p].quote_id] =
                  Flush(@, req[p].quote, req[p].filled)]
  /\ rfqs' = [rfqs EXCEPT ![req[p].rfq_id] =
                Flush(@, req[p].rfq,
                      submit_quote_rfq(req[p].rfq, req[p].all_in))]
  /\ job' = IF req[p].all_in
            THEN Flush(job, req[p].job, submit_quote_job(req[p].job, TRUE))
            ELSE job
  /\ Finish(p)
  /\ UNCHANGED <<estimate_items, payments, updates, audit, now, result>>

\* JobCardService.update_status, statement by statement.
\* Lines 213-222: the job is loaded and the transition is validated against
\* the status loaded.
status_load_job(p, new_status) ==
  /\ req[p].op = "idle"
  /\ IF new_status \notin _get_valid_transitions(job.status)
     THEN UNCHANGED req
     ELSE req' = [req EXCEPT ![p] = [op |-> "update_status", pc |-> "commit",
                                     new_status |-> new_status, job |-> job]]
  /\ UNCHANGED <<job, estimate_items, rfqs, quotes, payments, updates, audit,
                 now, result>>

\* Lines 225-236: the status and the timestamps are written.
status_commit(p) ==
  /\ req[p].op = "update_status" /\ req[p].pc = "commit"
  /\ job' = Flush(job, req[p].job,
                  update_status_job(req[p].job, req[p].new_status))
  /\ req' = [req EXCEPT ![p].pc = "record"]
  /\ UNCHANGED <<estimate_items, rfqs, quotes, payments, updates, audit, now,
                 result>>

\* Lines 239-242: the job-update record and the audit entry are written.
status_record(p) ==
  /\ req[p].op = "update_status" /\ req[p].pc = "record"
  /\ Len(audit) < MaxLog
  /\ updates' = Append(updates, _create_update(req[p].job.status,
                                               req[p].new_status))
  /\ audit' = Append(audit, _log_action("status_update",
                                        <<req[p].job.status,
                                          req[p].new_status>>))
  /\ Finish(p)
  /\ UNCHANGED <<job, estimate_items, rfqs, quotes, payments, now, result>>

\* start_delivery, statement by statement.
\* Lines 164-169: the job is loaded and checked to be READY.
delivery_load_job(p) ==
  /\ req[p].op = "idle"
  /\ IF job.status # "READY"
     THEN UNCHANGED req
     ELSE req' = [req EXCEPT ![p] = [op |-> "start_delivery",
                                     pc |-> "commit", job |-> job]]
  /\ UNCHANGED <<job, estimate_items, rfqs, quotes, payments, updates, audit,
                 now, result>>

\* Lines 171-174: the status is written.
delivery_commit(p) ==
  /\ req[p].op = "start_delivery" /\ req[p].pc = "commit"
  /\ job' = Flush(job, req[p].job,
                  [req[p].job EXCEPT !.status = "OUT_FOR_DELIVERY"])
  /\ Finish(p)
  /\ UNCHANGED <<estimate_items, rfqs, quotes, payments, updates, audit, now,
                 result>>

\* RFQService.send_rfq, statement by statement.
\* Lines 82-114: the RFQ is loaded and checked to be DRAFT, and the vendors
\* are resolved.
send_load_rfq(p, rfq_id, vendor_ids) ==
  /\ req[p].op = "idle"
  /\ IF \/ rfq_id \notin Ids(rfqs)
        \/ rfqs[rfq_id].status # "DRAFT"
        \/ ResolveVendors(vendor_ids) = {}
     THEN UNCHANGED req
     ELSE req' = [req EXCEPT ![p] =
            [op |-> "send_rfq", pc |-> "load_job", rfq_id |-> rfq_id,
             rfq |-> rfqs[rfq_id],
             vendors |-> VendorList(ResolveVendors(vendor_ids)),
             job |-> create_booking]]
  /\ UNCHANGED <<job, estimate_items, rfqs, quotes, payments, updates, audit,
                 now, result>>

\* Line 130: rfq.job_card is loaded.
send_load_job(p) ==
  /\ req[p].op = "send_rfq" /\ req[p].pc = "load_job"
  /\ req' = [req EXCEPT ![p].pc = "commit", ![p].job = job]
  /\ UNCHANGED <<job, estimate_items, rfqs, quotes, payments, updates, audit,
                 now, result>>

\* Line 134: the placeholders are inserted, the RFQ and the job are written.
send_commit(p) ==
  /\ req[p].op = "send_rfq" /\ req[p].pc = "commit"
  /\ quotes' = quotes \o Placeholders(req[p].rfq_id, req[p].vendors)
  /\ rfqs' = [rfqs EXCEPT ![req[p].rfq_id] =
                Flush(@, req[p].rfq, [req[p].rfq EXCEPT !.status = "SENT",
                                                        !.sent_at = now])]
  /\ job' = Flush(job, req[p].job, send_rfq_job(req[p].job))
  /\ Finish(p)
  /\ UNCHANGED <<estimate_items, payments, updates, audit, now, result>>

\* Sum of the amounts of the COMPLETED payments of the job.
RECURSIVE CompletedTotal(_)
CompletedTotal(ps) ==
  IF ps = <<>> THEN 0
  ELSE (IF Head(ps).status = "COMPLETED" THEN Head(ps).amount ELSE 0)
       + CompletedTotal(Tail(ps))

\* ------------------------------------------------------------------ Spec
\* The whole engine, one request at a time, over the requests it accepts.
\* A request the handler rejects changes nothing but its response.
Accepted == result'.outcome \in {"ok", "server_error"}

\* The statuses staff ask for along the life of a job.
StatusInputs ==
  {"SCHEDULED", "IN_INTAKE", "DIAGNOSED", "IN_SERVICE", "TESTING", "READY",
   "CANCELLED"}

RequestStatus == \E new_status \in StatusInputs : update_status(new_status)

\* The RFQ goes to vendor 1, who answers it.
SendRfqToOne == \E rfq_id \in 1..MaxRfqs : send_rfq(rfq_id, {1})

SubmitQuoteOfOne ==
  \E rfq_id \in 1..MaxRfqs, subtotal \in QuoteSubtotalInputs,
     delivery_days \in DeliveryDaysInputs :
    submit_quote(rfq_id, 1, subtotal, delivery_days)

PaymentSucceeded ==
  \E payment_id \in 1..MaxPayments :
    stripe_webhook("payment_intent.succeeded", payment_id)

Next ==
  \/ RequestStatus /\ Accepted
  \/ CreateEstimate /\ Accepted
  \/ approve_estimate(TRUE) /\ Accepted
  \/ approve_parts(TRUE) /\ Accepted
  \/ submit_feedback /\ Accepted
  \/ create_rfq(None) /\ Accepted
  \/ SendRfqToOne /\ Accepted
  \/ SubmitQuoteOfOne /\ Accepted
  \/ SelectQuote /\ Accepted
  \/ CreatePaymentLink /\ Accepted
  \/ RecordCashPayment /\ Accepted
  \/ ConfirmOnlinePayment /\ Accepted
  \/ PaymentSucceeded /\ Accepted
  \/ start_delivery /\ Accepted
  \/ ConfirmDelivery /\ Accepted

Spec == Init /\ [][Next]_vars

\* The money columns of a job.
Money(j) ==
  <<j.labour_total, j.parts_total, j.pickup_delivery_fee, j.tax_amount,
    j.discount_amount, j.estimate_total, j.grand_total, j.amount_paid,
    j.balance_due>>

\* C3: whatever operation writes the status of the job, a change from s to
\* t follows an edge of the transition table: t is in
\* _get_valid_transitions(s).
C3_StatusFollowsTable ==
  [][job'.status # job.status
     => job'.status \in _get_valid_transitions(job.status)]_vars

\* C5: once the job is CANCELLED or CLOSED, no operation changes its status
\* or its money columns.
C5_TerminalJobFrozen ==
  [][job.status \in {"CANCELLED", "CLOSED"}
     => (job'.status = job.status /\ Money(job') = Money(job))]_vars

\* C6: in every state reached by estimates, quote selections and payments,
\* grand_total = labour_total + parts_total + pickup_delivery_fee
\* + tax_amount - discount_amount.
C6_GrandTotal ==
  job.grand_total = job.labour_total + job.parts_total
                    + job.pickup_delivery_fee + job.tax_amount
                    - job.discount_amount

\* A quote has been selected over an estimate with labour and a fee, and
\* payments have been taken.
C6_Witness ==
  /\ \E r \in Ids(rfqs) : rfqs[r].status = "QUOTE_SELECTED"
  /\ job.labour_total > 0
  /\ job.parts_total > 0
  /\ job.tax_amount > 0
  /\ job.amount_paid > 0

\* C7: in every state reached by estimates, quote selections, cash and
\* online payments, webhook deliveries and delivery confirmations,
\* balance_due = grand_total - amount_paid.
C7_BalanceDue == job.balance_due = job.grand_total - job.amount_paid

\* The driver has collected cash on delivery of a job with an estimate and
\* an earlier payment.
C7_Witness ==
  /\ job.status = "DELIVERED"
  /\ result.op = "confirm_delivery"
  /\ Len(payments) = 2
  /\ payments[2].payment_method = "CASH"
  /\ job.grand_total > 0
  /\ job.amount_paid = payments[1].amount + payments[2].amount

\* ------------------------------------------------------------ SpecStatus
\* Staff ask for any status, allowed or not, while time passes.
NextStatus ==
  \/ Tick
  \/ UpdateStatus

SpecStatus == Init /\ [][NextStatus]_vars

\* The timestamps of a job.
Timestamps(j) ==
  <<j.estimate_approved_at, j.parts_approved_at, j.actual_pickup_time,
    j.actual_delivery_time, j.actual_completion_date>>

\* C4: update_status with a target outside the adjacency list of the
\* current status answers with an invalid-transition error that names the
\* current and the requested status, and leaves the status, the timestamps,
\* the job-update records and the audit log as they were.
C4_InvalidTransitionRejected ==
  [][\A new_status \in JobStatus :
       (update_status(new_status)
        /\ new_status \notin _get_valid_transitions(job.status))
       => /\ result'.outcome = "invalid_transition"
          /\ result'.from = job.status
          /\ result'.to = new_status
          /\ job'.status = job.status
          /\ Timestamps(job') = Timestamps(job)
          /\ updates' = updates
          /\ audit' = audit]_vars

\* A picked-up vehicle has just been refused a status its current status
\* does not lead to.
C4_Witness ==
  /\ result.op = "update_status"
  /\ result.outcome = "invalid_transition"
  /\ result.to \notin _get_valid_transitions(job.status)
  /\ result.from = job.status
  /\ job.actual_pickup_time # None
  /\ Len(updates) > 0

\* --------------------------------------------------------------- SpecPay
\* A job is estimated and approved; payments are entered, confirmed and
\* confirmed again, one request at a time.
LifeSteps ==
  \/ RequestStatus /\ Accepted
  \/ CreateEstimate /\ Accepted
  \/ approve_estimate(TRUE) /\ Accepted

NextPay ==
  \/ LifeSteps
  \/ CreatePaymentLink
  \/ RecordCashPayment
  \/ ConfirmOnlinePayment
  \/ StripeWebhook

SpecPay == Init /\ [][NextPay]_vars

\* A request confirms payment_id on the callback route or on the webhook.
Confirms(payment_id) ==
  \/ confirm_online_payment(payment_id)
  \/ stripe_webhook("payment_intent.succeeded", payment_id)

LabourEstimate == create_estimate(<<Item("labour", 1, 100)>>, 0, 5)

NextConfirmRace ==
  \/ LabourEstimate
  \/ CreatePaymentLink
  \/ \E p \in Procs, payment_id \in 1..MaxPayments :
       confirm_load_payment(p, payment_id)
  \/ \E p \in Procs : confirm_load_job(p)
  \/ \E p \in Procs : confirm_commit(p)
  \/ \E p \in Procs, payment_id \in 1..MaxPayments :
       webhook_load_payment(p, payment_id)
  \/ \E p \in Procs : webhook_load_job(p)
  \/ \E p \in Procs : webhook_commit(p)

SpecConfirmRace == Init /\ [][NextConfirmRace]_vars

\* C1: confirmations of one pending payment that arrive together add its
\* amount to amount_paid at most once, so amount_paid never exceeds the sum
\* of the payments that are COMPLETED.
C1_ConfirmedAtMostOnce == job.amount_paid <= CompletedTotal(payments)

\* ------------------------------------------------------ SpecCashVsOnline
\* Process 1 serves the cashier, the other processes serve the payment
\* gateway.
Gateway == 2..NumProcs
Cashiers == Procs \ Gateway

NextCashVsOnline ==
  \/ LabourEstimate
  \/ CreatePaymentLink
  \/ \E p \in Cashiers, amount \in PayAmounts : cash_load_job(p, amount)
  \/ \E p \in Cashiers : cash_commit(p)
  \/ \E p \in Gateway, payment_id \in 1..MaxPayments :
       confirm_load_payment(p, payment_id)
  \/ \E p \in Gateway : confirm_load_job(p)
  \/ \E p \in Gateway : confirm_commit(p)
  \/ \E p \in Gateway, payment_id \in 1..MaxPayments :
       webhook_load_payment(p, payment_id)
  \/ \E p \in Gateway : webhook_load_job(p)
  \/ \E p \in Gateway : webhook_commit(p)

SpecCashVsOnline == Init /\ [][NextCashVsOnline]_vars

\* C10: when a cash payment is recorded while an online payment of the same
\* job is confirmed, neither increment is lost: once both requests have
\* returned, amount_paid is the sum of the COMPLETED payments.
C10_NoPaymentLost ==
  AllIdle => job.amount_paid = CompletedTotal(payments)

\* --------------------------------------------------------------- SpecRfq
\* An approved job goes out for quotes; vendors answer on both submission
\* routes, one request at a time, and staff select a quote.
\* The job is taken in, diagnosed, estimated with a part and approved.
IntakeInputs == {"SCHEDULED", "IN_INTAKE", "DIAGNOSED"}

PartsEstimate ==
  create_estimate(<<Item("labour", 1, 100), Item("part", 1, 200)>>, 0, 5)

IntakeSteps ==
  \/ (\E new_status \in IntakeInputs : update_status(new_status)) /\ Accepted
  \/ PartsEstimate /\ job.status = "DIAGNOSED"
  \/ approve_estimate(TRUE) /\ Accepted

NextRfq ==
  \/ IntakeSteps
  \/ update_status("CANCELLED") /\ Accepted
  \/ CreateRfq /\ Accepted
  \/ SendRfq /\ Accepted
  \/ SubmitQuote /\ Accepted
  \/ VendorSubmitQuote /\ Accepted
  \/ SelectQuote /\ Accepted

SpecRfq == Init /\ [][NextRfq]_vars

\* A vendor's submission on rfq_id is accepted, on either route.
Submits(rfq_id) ==
  /\ result'.outcome = "ok"
  /\ \E vendor \in Vendors, amount \in QuoteSubtotalInputs,
        delivery_days \in DeliveryDaysInputs :
       \/ submit_quote(rfq_id, vendor, amount, delivery_days)
       \/ vendor_submit_quote(rfq_id, vendor, amount, delivery_days)

\* Some quote of rfq_id is PENDING in the table qs.
SomePending(qs, rfq_id) ==
  \E q \in QuotesOf(qs, rfq_id) : qs[q].status = "PENDING"

\* C9: with one request at a time, the RFQ is QUOTES_RECEIVED after a
\* submission exactly when no quote of the RFQ is PENDING after it; in that
\* step a job at RFQ_SENT moves to QUOTES_RECEIVED; and a submission that
\* leaves a quote PENDING leaves the RFQ (SENT) and the job (RFQ_SENT) where
\* they were.
C9_BarrierSequential ==
  [][\A rfq_id \in Ids(rfqs) :
       Submits(rfq_id)
       => /\ rfqs'[rfq_id].status = "QUOTES_RECEIVED"
               <=> ~SomePending(quotes', rfq_id)
          /\ (~SomePending(quotes', rfq_id) /\ job.status = "RFQ_SENT")
               => job'.status = "QUOTES_RECEIVED"
          /\ SomePending(quotes', rfq_id)
               => /\ rfqs'[rfq_id].status = rfqs[rfq_id].status
                  /\ job'.status = job.status
                  /\ rfqs[rfq_id].status = "SENT"
                       => rfqs'[rfq_id].status = "SENT"]_vars

\* The last of several invited vendors has just submitted: the RFQ and the
\* job are at QUOTES_RECEIVED.
C9_Witness ==
  /\ result.op = "submit_quote"
  /\ result.outcome = "ok"
  /\ result.from = "RFQ_SENT"
  /\ job.status = "QUOTES_RECEIVED"
  /\ rfqs[1].status = "QUOTES_RECEIVED"
  /\ Cardinality(QuotesOf(quotes, 1)) >= 2
  /\ \A q \in QuotesOf(quotes, 1) : quotes[q].status = "SUBMITTED"

\* ----------------------------------------------------------- SpecRfqRace
\* The invited vendors answer an RFQ at the same time.
SendRfqToAll == \E rfq_id \in 1..MaxRfqs : send_rfq(rfq_id, {})

NextRfqRace ==
  \/ IntakeSteps
  \/ create_rfq(None) /\ Accepted
  \/ SendRfqToAll /\ Accepted
  \/ \E p \in Procs, rfq_id \in 1..MaxRfqs, vendor \in Vendors,
        subtotal \in QuoteSubtotalInputs, delivery_days \in DeliveryDaysInputs :
       submit_load_quote(p, rfq_id, vendor, subtotal, delivery_days)
  \/ \E p \in Procs : submit_load_rfq(p)
  \/ \E p \in Procs : submit_load_quotes(p)
  \/ \E p \in Procs : submit_load_job(p)
  \/ \E p \in Procs : submit_commit(p)

SpecRfqRace == Init /\ [][NextRfqRace]_vars

\* C8: when the invited vendors submit at the same time, the RFQ makes its
\* transition to QUOTES_RECEIVED and the job is promoted from RFQ_SENT,
\* whatever the interleaving: once every quote is in and every request has
\* returned, the RFQ and the job are at QUOTES_RECEIVED.
C8_BarrierFires ==
  \A rfq_id \in Ids(rfqs) :
    (/\ AllIdle
     /\ QuotesOf(quotes, rfq_id) # {}
     /\ \A q \in QuotesOf(quotes, rfq_id) : quotes[q].status = "SUBMITTED")
    => (rfqs[rfq_id].status = "QUOTES_RECEIVED"
        /\ job.status = "QUOTES_RECEIVED")

\* -------------------------------------------------------- SpecStatusRace
\* A job is brought to the workshop one request at a time; then staff and
\* drivers change its status at the same time.
WorkshopInputs ==
  {"SCHEDULED", "IN_INTAKE", "DIAGNOSED", "AWAITING_ESTIMATE_APPROVAL",
   "ESTIMATE_APPROVED"}

RaceInputs == {"IN_SERVICE", "TESTING", "READY", "DELIVERED"}

NextStatusRace ==
  \/ (\E new_status \in WorkshopInputs : update_status(new_status))
       /\ Accepted
  \/ \E p \in Procs, new_status \in RaceInputs :
       status_load_job(p, new_status)
  \/ \E p \in Procs : status_commit(p)
  \/ \E p \in Procs : status_record(p)
  \/ \E p \in Procs : delivery_load_job(p)
  \/ \E p \in Procs : delivery_commit(p)

SpecStatusRace == Init /\ [][NextStatusRace]_vars

\* C11: when status-changing requests on a job run at the same time, every
\* status a request commits is adjacent to the status committed just before
\* it: a request validated against a status that has since changed does not
\* overwrite the newer status.
C11_CommitsFollowEdges ==
  [][\A p \in Procs :
       (status_commit(p) \/ delivery_commit(p))
       => \/ job'.status = job.status
          \/ job'.status \in _get_valid_transitions(job.status)]_vars

\* ------------------------------------------------------------ SpecSelect
\* An RFQ is sent and answered; staff ask to select any quote of any RFQ at
\* any moment.
NextSelect ==
  \/ IntakeSteps
  \/ CreateRfq /\ Accepted
  \/ SendRfq /\ Accepted
  \/ SubmitQuote /\ Accepted
  \/ VendorSubmitQuote /\ Accepted
  \/ SelectQuote

SpecSelect == Init /\ [][NextSelect]_vars

\* select_quote(rfq_id, quote_id) meets an RFQ that is SENT or
\* QUOTES_RECEIVED and a SUBMITTED quote of it.
Selectable(rfq_id, quote_id) ==
  /\ rfq_id \in Ids(rfqs)
  /\ rfqs[rfq_id].status \in {"SENT", "QUOTES_RECEIVED"}
  /\ quote_id \in QuotesOf(quotes, rfq_id)
  /\ quotes[quote_id].status = "SUBMITTED"

\* C12: select_quote is accepted only on an RFQ that is SENT or
\* QUOTES_RECEIVED and a target quote that is SUBMITTED.  On success the
\* target becomes SELECTED, every other SUBMITTED quote of the RFQ becomes
\* REJECTED, PENDING and EXPIRED quotes stay as they are, and the RFQ gets
\* selected_quote_id = target and status QUOTE_SELECTED.  Otherwise the call
\* fails and no quote, RFQ or job field changes.
C12_SelectQuoteContract ==
  [][\A rfq_id \in 1..MaxRfqs, quote_id \in 1..MaxQuotes :
       select_quote(rfq_id, quote_id)
       => IF Selectable(rfq_id, quote_id)
          THEN /\ result'.outcome = "ok"
               /\ quotes'[quote_id].status = "SELECTED"
               /\ \A q \in Ids(quotes) \ {quote_id} :
                    IF q \in QuotesOf(quotes, rfq_id)
                       /\ quotes[q].status = "SUBMITTED"
                    THEN quotes'[q].status = "REJECTED"
                    ELSE quotes'[q] = quotes[q]
               /\ rfqs'[rfq_id].selected_quote_id = quote_id
               /\ rfqs'[rfq_id].status = "QUOTE_SELECTED"
          ELSE /\ result'.outcome # "ok"
               /\ quotes' = quotes
               /\ rfqs' = rfqs
               /\ job' = job]_vars

\* A quote has just been selected on an RFQ where another vendor had
\* submitted and is now rejected.
C12_Witness ==
  /\ result.op = "select_quote"
  /\ result.outcome = "ok"
  /\ quotes[result.ref].status = "SELECTED"
  /\ \E q \in QuotesOf(quotes, quotes[result.ref].rfq_id) :
       quotes[q].status = "REJECTED"
  /\ rfqs[quotes[result.ref].rfq_id].selected_quote_id = result.ref

\* ---------------------------------------------------------- SpecSendRace
\* Staff send an RFQ from several sessions at the same time; vendors answer.
\* The vendor_ids staff pass: none (all active vendors), or vendor 1 alone.
SendInputs == {{}, {1}}

NextSendRace ==
  \/ IntakeSteps
  \/ create_rfq(None) /\ Accepted
  \/ \E p \in Procs, rfq_id \in 1..MaxRfqs, vendor_ids \in SendInputs :
       send_load_rfq(p, rfq_id, vendor_ids)
  \/ \E p \in Procs : send_load_job(p)
  \/ \E p \in Procs : send_commit(p)
  \/ SubmitQuote /\ Accepted
  \/ VendorSubmitQuote /\ Accepted

SpecSendRace == Init /\ [][NextSendRace]_vars

\* C13: in every reachable state there is at most one vendor_quotes row per
\* (rfq, vendor) pair, whatever the order and interleaving of send_rfq and
\* the submissions on either route.
C13_OneQuotePerVendor ==
  \A q1 \in Ids(quotes), q2 \in Ids(quotes) :
    (quotes[q1].rfq_id = quotes[q2].rfq_id
     /\ quotes[q1].vendor_id = quotes[q2].vendor_id)
    => q1 = q2

\* ---------------------------------------------------------- SpecDeadline
\* An RFQ with a deadline is sent to vendor 1; time passes; vendors submit
\* on both routes.
NextDeadline ==
  \/ Tick
  \/ IntakeSteps
  \/ CreateRfq /\ Accepted
  \/ SendRfqToOne /\ Accepted
  \/ SubmitQuote /\ Accepted
  \/ VendorSubmitQuote

SpecDeadline == Init /\ [][NextDeadline]_vars

\* The quote_deadline of rfq_id has passed.
DeadlinePassed(rfq_id) ==
  /\ rfqs[rfq_id].quote_deadline # None
  /\ rfqs[rfq_id].quote_deadline < now

\* vendor holds a PENDING placeholder on rfq_id.
InvitedPending(rfq_id, vendor) ==
  \E q \in QuotesOf(quotes, rfq_id) :
    quotes[q].vendor_id = vendor /\ quotes[q].status = "PENDING"

\* C14: a submission by an invited vendor after the quote_deadline of the
\* RFQ is rejected with a deadline-passed error and leaves the quotes, the
\* RFQ and the job as they were.
C14_LateSubmissionRejected ==
  [][\A rfq_id \in Ids(rfqs), vendor \in Vendors,
        subtotal \in QuoteSubtotalInputs, delivery_days \in DeliveryDaysInputs :
       (/\ DeadlinePassed(rfq_id)
        /\ InvitedPending(rfq_id, vendor)
        /\ submit_quote(rfq_id, vendor, subtotal, delivery_days))
       => /\ result'.outcome = "deadline_passed"
          /\ quotes' = quotes
          /\ rfqs' = rfqs
          /\ job' = job]_vars

\* vendor holds a SUBMITTED quote on rfq_id.
HasSubmitted(rfq_id, vendor) ==
  \E q \in QuotesOf(quotes, rfq_id) :
    quotes[q].vendor_id = vendor /\ quotes[q].status = "SUBMITTED"

\* C15: submission is one-shot per vendor: once the quote of a vendor on an
\* RFQ is SUBMITTED, a further submit_quote by that vendor on that RFQ is
\* rejected, and the stored quote (totals, delivery days, submitted_at) is
\* unchanged.
C15_OneShotSubmission ==
  [][\A rfq_id \in Ids(rfqs), vendor \in Vendors,
        subtotal \in QuoteSubtotalInputs, delivery_days \in DeliveryDaysInputs :
       (/\ HasSubmitted(rfq_id, vendor)
        /\ submit_quote(rfq_id, vendor, subtotal, delivery_days))
       => /\ result'.outcome # "ok"
          /\ quotes' = quotes]_vars

\* ---------------------------------------------------------- SpecApproval
\* A job is estimated, quoted and selected; the customer answers the
\* estimate and the parts quote at any moment, with yes or no.
NextApproval ==
  \/ RequestStatus /\ Accepted
  \/ CreateEstimate /\ Accepted
  \/ ApproveEstimate
  \/ create_rfq(None) /\ Accepted
  \/ SendRfqToOne /\ Accepted
  \/ SubmitQuoteOfOne /\ Accepted
  \/ SelectQuote /\ Accepted
  \/ ApproveParts

SpecApproval == Init /\ [][NextApproval]_vars

\* Some estimate item of the job is a part.
HasParts == \E i \in 1..Len(estimate_items) : estimate_items[i].item_type = "part"

\* C16: approve_estimate is accepted only at AWAITING_ESTIMATE_APPROVAL,
\* otherwise it fails and the job is unchanged; a rejection cancels the job;
\* an approval sets estimate_approved_at and moves the job to
\* ESTIMATE_APPROVED when an estimate item is a part, to AWAITING_PAYMENT
\* when none is.
C16_ApproveEstimate ==
  [][\A approved \in BOOLEAN :
       approve_estimate(approved)
       => IF job.status # "AWAITING_ESTIMATE_APPROVAL"
          THEN result'.outcome # "ok" /\ job' = job
          ELSE IF ~approved
          THEN /\ job'.status = "CANCELLED"
               /\ job'.estimate_approved_at = job.estimate_approved_at
          ELSE /\ job'.estimate_approved_at = now
               /\ job'.estimate_approved_at # None
               /\ job'.status = IF HasParts THEN "ESTIMATE_APPROVED"
                                ELSE "AWAITING_PAYMENT"]_vars

\* An estimate without parts has just been approved: the job awaits payment.
C16_Witness ==
  /\ result.op = "approve_estimate"
  /\ result.outcome = "ok"
  /\ estimate_items # <<>>
  /\ ~HasParts
  /\ job.status = "AWAITING_PAYMENT"
  /\ job.estimate_approved_at # None

\* C17: approve_parts is accepted only at AWAITING_PARTS_APPROVAL, otherwise
\* it fails with an approval-state error and the job is unchanged; a
\* rejection cancels the job and leaves parts_approved_at unset; an approval
\* sets parts_approved_at and moves the job to AWAITING_PAYMENT.
C17_ApproveParts ==
  [][\A approved \in BOOLEAN :
       approve_parts(approved)
       => IF job.status # "AWAITING_PARTS_APPROVAL"
          THEN result'.outcome = "not_awaiting_approval" /\ job' = job
          ELSE IF ~approved
          THEN /\ job'.status = "CANCELLED"
               /\ job'.parts_approved_at = job.parts_approved_at
          ELSE /\ job'.parts_approved_at = now
               /\ job'.parts_approved_at # None
               /\ job'.status = "AWAITING_PAYMENT"]_vars

\* The customer has just rejected the parts quote: the job is cancelled and
\* parts_approved_at is unset.
C17_Witness ==
  /\ result.op = "approve_parts"
  /\ result.outcome = "ok"
  /\ result.from = "AWAITING_PARTS_APPROVAL"
  /\ job.status = "CANCELLED"
  /\ job.parts_approved_at = None

\* ------------------------------------------------------------ SpecStamps
\* Time passes while an RFQ is answered, selected and approved, one request
\* at a time.
NextStamps ==
  \/ Tick
  \/ IntakeSteps
  \/ create_rfq(None) /\ Accepted
  \/ SendRfqToAll /\ Accepted
  \/ SubmitQuote /\ Accepted
  \/ SelectQuote /\ Accepted
  \/ approve_parts(TRUE) /\ Accepted

SpecStamps == Init /\ [][NextStamps]_vars

\* C18: estimate_approved_at and parts_approved_at are each written at most
\* once in the life of a job: once set, no operation overwrites or clears
\* the value.
C18_StampsSetOnce ==
  [][/\ job.estimate_approved_at # None
        => job'.estimate_approved_at = job.estimate_approved_at
     /\ job.parts_approved_at # None
        => job'.parts_approved_at = job.parts_approved_at]_vars

\* The status a payment leaves on a job whose balance becomes balance_due.
Promoted(old_status, balance_due) ==
  IF balance_due <= 0 THEN "PAID"
  ELSE IF old_status = "AWAITING_PAYMENT" THEN "PARTIALLY_PAID"
  ELSE old_status

\* C19: recording a manual payment of amount a creates a COMPLETED payment
\* and adds exactly a to amount_paid; the status becomes PAID when the new
\* balance_due is <= 0, PARTIALLY_PAID when it is not and the job was
\* AWAITING_PAYMENT, and stays as it was otherwise.  Confirming a PENDING
\* payment promotes the status by the same rule.
C19_PaymentPromotion ==
  [][/\ \A amount \in PayAmounts :
          record_cash_payment(amount)
          => /\ Len(payments') = Len(payments) + 1
             /\ payments'[Len(payments')].status = "COMPLETED"
             /\ payments'[Len(payments')].amount = amount
             /\ job'.amount_paid = job.amount_paid + amount
             /\ job'.balance_due = job.grand_total - job'.amount_paid
             /\ job'.status = Promoted(job.status, job'.balance_due)
     /\ \A payment_id \in Ids(payments) :
          (payments[payment_id].status = "PENDING" /\ Confirms(payment_id))
          => /\ job'.amount_paid
                  = job.amount_paid + payments[payment_id].amount
             /\ job'.balance_due = job.grand_total - job'.amount_paid
             /\ job'.status = Promoted(job.status, job'.balance_due)]_vars

\* A first cash payment on a job awaiting payment has left a balance: the
\* job is PARTIALLY_PAID.
C19_Witness ==
  /\ result.op = "record_cash_payment"
  /\ result.from = "AWAITING_PAYMENT"
  /\ job.status = "PARTIALLY_PAID"
  /\ job.balance_due > 0
  /\ job.amount_paid > 0

\* Sum of quantity * unit_price over the items of one type.
RECURSIVE ItemSum(_, _)
ItemSum(items, item_type) ==
  IF items = <<>> THEN 0
  ELSE (IF Head(items).item_type = item_type
        THEN Head(items).quantity * Head(items).unit_price ELSE 0)
       + ItemSum(Tail(items), item_type)

\* C20: after create_estimate with items I, delivery fee f and tax rate r
\* (a percentage), the estimate items are exactly I, labour_total and
\* parts_total are the sums of quantity * unit_price over the labour and the
\* part items, tax_amount = (labour_total + parts_total + f) * r / 100,
\* estimate_total = labour_total + parts_total + f + tax_amount, and the
\* status changes only from DIAGNOSED, to AWAITING_ESTIMATE_APPROVAL.
C20_CreateEstimate ==
  [][\A data \in EstimateInputs :
       create_estimate(data[1], data[2], data[3])
       => /\ Len(estimate_items') = Len(data[1])
          /\ \A i \in 1..Len(data[1]) :
               /\ estimate_items'[i].item_type = data[1][i].item_type
               /\ estimate_items'[i].quantity = data[1][i].quantity
               /\ estimate_items'[i].unit_price = data[1][i].unit_price
          /\ job'.labour_total = ItemSum(data[1], "labour")
          /\ job'.parts_total = ItemSum(data[1], "part")
          /\ job'.pickup_delivery_fee = data[2]
          /\ job'.tax_amount * 100
               = (job'.labour_total + job'.parts_total + data[2]) * data[3]
          /\ job'.estimate_total
               = job'.labour_total + job'.parts_total + data[2]
                 + job'.tax_amount
          /\ job'.status = IF job.status = "DIAGNOSED"
                           THEN "AWAITING_ESTIMATE_APPROVAL"
                           ELSE job.status]_vars

\* A diagnosed job has just been estimated at labour 300 and a part of 200
\* with 5% tax: estimate_total is 525 and the job awaits approval.
C20_Witness ==
  /\ result.op = "create_estimate"
  /\ result.from = "DIAGNOSED"
  /\ job.status = "AWAITING_ESTIMATE_APPROVAL"
  /\ job.labour_total = 300
  /\ job.parts_total = 200
  /\ job.tax_amount = 25
  /\ job.estimate_total = 525
  /\ Len(estimate_items) = 3

\* -------------------------------------------------------------- SpecSend
\* Staff create RFQs for an approved job, possibly after service has begun,
\* and ask to send any RFQ to any set of vendors at any moment.
NextSend ==
  \/ LifeSteps
  \/ CreateRfq /\ Accepted
  \/ SendRfq
  \/ SubmitQuoteOfOne /\ Accepted
  \/ SelectQuote /\ Accepted

SpecSend == Init /\ [][NextSend]_vars

\* send_rfq(rfq_id, vendor_ids) meets a DRAFT RFQ and resolves a vendor.
Sendable(rfq_id, vendor_ids) ==
  /\ rfq_id \in Ids(rfqs)
  /\ rfqs[rfq_id].status = "DRAFT"
  /\ ResolveVendors(vendor_ids) # {}

\* C21: send_rfq succeeds only on a DRAFT RFQ with a non-empty resolved
\* vendor set.  It then adds exactly one PENDING quote per resolved active
\* vendor, sets the RFQ to SENT and moves the job to RFQ_SENT only if it was
\* ESTIMATE_APPROVED.  Otherwise it fails, creates no quote and changes
\* neither the RFQ nor the job.
C21_SendRfqContract ==
  [][\A rfq_id \in 1..MaxRfqs,
        vendor_ids \in SUBSET (Vendors \cup {InactiveVendor}) :
       send_rfq(rfq_id, vendor_ids)
       => IF Sendable(rfq_id, vendor_ids)
          THEN LET resolved == IF vendor_ids = {} THEN ActiveVendors
                               ELSE vendor_ids \cap ActiveVendors
                   added == Ids(quotes') \ Ids(quotes)
               IN  /\ result'.outcome = "ok"
                   /\ \A q \in Ids(quotes) : quotes'[q] = quotes[q]
                   /\ Cardinality(added) = Cardinality(resolved)
                   /\ \A q \in added :
                        /\ quotes'[q].rfq_id = rfq_id
                        /\ quotes'[q].status = "PENDING"
                        /\ quotes'[q].vendor_id \in resolved
                   /\ \A v \in resolved :
                        Cardinality({q \in added : quotes'[q].vendor_id = v})
                          = 1
                   /\ rfqs'[rfq_id].status = "SENT"
                   /\ rfqs'[rfq_id].sent_at = now
                   /\ job'.status = IF job.status = "ESTIMATE_APPROVED"
                                    THEN "RFQ_SENT" ELSE job.status
          ELSE /\ result'.outcome # "ok"
               /\ quotes' = quotes
               /\ rfqs' = rfqs
               /\ job' = job]_vars

\* An RFQ has just been sent to both vendors while the job was already in
\* service: two PENDING quotes, the RFQ SENT, the job still IN_SERVICE.
C21_Witness ==
  /\ result.op = "send_rfq"
  /\ result.outcome = "ok"
  /\ rfqs[result.ref].status = "SENT"
  /\ job.status = "IN_SERVICE"
  /\ Cardinality({q \in QuotesOf(quotes, result.ref) :
                    quotes[q].status = "PENDING"}) = NumVendors

\* -------------------------------------------------------- SpecAutoSelect
\* One RFQ is created under either sorting policy and sent to every vendor;
\* vendors offer different prices and delivery times, staff select quotes,
\* and auto_select_quote is asked at any moment.
OfferSubtotals == {200, 400}
OfferDays == {3, 5, 8}

CreateRfqWithRule ==
  \E selection_rule \in SelectionRules :
    create_rfq_data(None, selection_rule, DefaultMaxDeliveryDays)

OfferQuote ==
  \E rfq_id \in 1..MaxRfqs, vendor \in Vendors, subtotal \in OfferSubtotals,
     delivery_days \in OfferDays :
    submit_quote(rfq_id, vendor, subtotal, delivery_days)

NextAutoSelect ==
  \/ IntakeSteps
  \/ CreateRfqWithRule /\ rfqs = <<>> /\ Accepted
  \/ SendRfqToAll /\ Accepted
  \/ OfferQuote /\ Accepted
  \/ SelectQuote /\ Accepted
  \/ AutoSelectQuote

SpecAutoSelect == Init /\ [][NextAutoSelect]_vars

\* The quotes of the RFQ the policy is to consider: SUBMITTED and within
\* the RFQ's max_delivery_days.
Eligible(rfq_id) ==
  {q \in QuotesOf(quotes, rfq_id) :
     /\ quotes[q].status = "SUBMITTED"
     /\ quotes[q].delivery_days <= rfqs[rfq_id].max_delivery_days}

\* Quote q is minimal among the eligible quotes by the rule's sort key.
MinimalByRule(rfq_id, q) ==
  /\ q \in Eligible(rfq_id)
  /\ \A other \in Eligible(rfq_id) :
       IF rfqs[rfq_id].selection_rule = "cheapest_available"
       THEN \/ quotes[q].total_amount < quotes[other].total_amount
            \/ /\ quotes[q].total_amount = quotes[other].total_amount
               /\ quotes[q].delivery_days <= quotes[other].delivery_days
       ELSE \/ quotes[q].delivery_days < quotes[other].delivery_days
            \/ /\ quotes[q].delivery_days = quotes[other].delivery_days
               /\ quotes[q].total_amount <= quotes[other].total_amount

\* C22 as stated: auto_select considers exactly the SUBMITTED quotes within
\* max_delivery_days, returns one that is minimal by (total_amount,
\* delivery_days) under cheapest_available and by (delivery_days,
\* total_amount) under fastest, returns none if and only if no SUBMITTED
\* quote meets the delivery constraint, and changes no stored state.
C22_AutoSelectAsStated ==
  [][\A rfq_id \in 1..MaxRfqs :
       (auto_select_quote(rfq_id) /\ rfq_id \in Ids(rfqs))
       => /\ (result'.ref = 0) <=> (Eligible(rfq_id) = {})
          /\ result'.ref # 0 => MinimalByRule(rfq_id, result'.ref)
          /\ UNCHANGED <<job, estimate_items, rfqs, quotes, payments,
                         updates, audit>>]_vars

\* C22, amended: on an RFQ whose status is QUOTES_RECEIVED, auto_select
\* returns a quote that is SUBMITTED, within max_delivery_days and minimal
\* by the policy's key pair, and returns none if and only if there is no
\* such quote; on an RFQ in any other status it returns none.  It changes
\* no stored state.
C22_AutoSelect ==
  [][\A rfq_id \in 1..MaxRfqs :
       (auto_select_quote(rfq_id) /\ rfq_id \in Ids(rfqs))
       => /\ (result'.ref = 0)
               <=> \/ rfqs[rfq_id].status # "QUOTES_RECEIVED"
                   \/ Eligible(rfq_id) = {}
          /\ result'.ref # 0 => MinimalByRule(rfq_id, result'.ref)
          /\ UNCHANGED <<job, estimate_items, rfqs, quotes, payments,
                         updates, audit>>]_vars

\* auto_select_quote has just returned the cheaper and slower of two
\* eligible quotes that differ in price and in delivery days.
C22_Witness ==
  /\ result.op = "auto_select_quote"
  /\ result.ref # 0
  /\ rfqs[quotes[result.ref].rfq_id].selection_rule = "cheapest_available"
  /\ \E other \in Eligible(quotes[result.ref].rfq_id) :
       /\ quotes[other].total_amount > quotes[result.ref].total_amount
       /\ quotes[other].delivery_days < quotes[result.ref].delivery_days

\* C23: the quote auto_select returns does not depend on the order in which
\* the quotes of the RFQ are stored: whatever order they are loaded in, it
\* returns the same quote, also when two quotes are equal on both sort keys.
C23_OrderIndependent ==
  [][\A rfq_id \in 1..MaxRfqs :
       (auto_select_quote(rfq_id) /\ rfq_id \in Ids(rfqs))
       => \A order \in Orderings(QuotesOf(quotes, rfq_id)) :
            result'.ref
              = auto_select_quote_result(quotes, rfqs[rfq_id], order)]_vars

\* C24: gateway events arrive at least once and in any order.  Once a
\* succeeded event has been delivered for a payment, the payment is
\* COMPLETED, also when a failed event for it was delivered before; a
\* COMPLETED payment never changes to another status, and a delivery for a
\* payment that is already COMPLETED does not apply its amount again.
C24_SucceededWins ==
  [][\A payment_id \in Ids(payments) :
       /\ stripe_webhook("payment_intent.succeeded", payment_id)
            => payments'[payment_id].status = "COMPLETED"
       /\ payments[payment_id].status = "COMPLETED"
            => /\ payments'[payment_id].status = "COMPLETED"
               /\ \A event_type \in EventTypes :
                    stripe_webhook(event_type, payment_id)
                    => job'.amount_paid = job.amount_paid]_vars

\* The statuses one accepted operation takes a job at status s to, when the
\* operation is a status update or a rejection by the customer.
CancelSteps(s) ==
  _get_valid_transitions(s)
  \cup (IF s = "AWAITING_ESTIMATE_APPROVAL"
        THEN {approve_estimate_job([create_booking EXCEPT !.status = s],
                                   <<>>, FALSE).status}
        ELSE {})
  \cup (IF s = "AWAITING_PARTS_APPROVAL"
        THEN {approve_parts_job([create_booking EXCEPT !.status = s],
                                FALSE).status}
        ELSE {})

\* The statuses from which some sequence of such operations ends in one of
\* the statuses of `reached`.
RECURSIVE Backward(_)
Backward(reached) ==
  LET more == reached \cup {s \in JobStatus : CancelSteps(s) \cap reached # {}}
  IN  IF more = reached THEN reached ELSE Backward(more)

\* C25: from every status other than CLOSED and CANCELLED, some sequence of
\* accepted status updates and rejections brings the job to CANCELLED.
C25_CancelReachable ==
  job.status \notin {"CLOSED", "CANCELLED"}
  => job.status \in Backward({"CANCELLED"})

\* C26: every operation that changes the status of the job appends an
\* audit log entry in the same operation, and the audit log only grows:
\* the entries it holds are never modified or removed.
C26_StatusChangesAudited ==
  [][/\ job'.status # job.status => Len(audit') = Len(audit) + 1
     /\ Len(audit') >= Len(audit)
     /\ SubSeq(audit', 1, Len(audit)) = audit]_vars

\* ------------------------------------------------------------ SpecNotify
\* Staff move a job along and record payments while the notification at the
\* end of a request may fail.
UpdateStatusNotify ==
  \E new_status \in StatusInputs, notification \in NotificationOutcomes :
    update_status_notify(new_status, notification)

RecordCashPaymentNotify ==
  \E amount \in PayAmounts, notification \in NotificationOutcomes :
    record_cash_payment_notify(amount, notification)

NextNotify ==
  \/ UpdateStatusNotify /\ Accepted
  \/ CreateEstimate /\ Accepted
  \/ approve_estimate(TRUE) /\ Accepted
  \/ RecordCashPaymentNotify

SpecNotify == Init /\ [][NextNotify]_vars

\* C27: when the notification step of a status update or of a payment
\* recording fails, the operation still returns its successful result and
\* the state changes it made stay committed.
C27_NotificationFailureSuppressed ==
  [][/\ \A new_status \in StatusInputs :
          (/\ update_status_notify(new_status, "raised")
           /\ new_status \in _get_valid_transitions(job.status))
          => /\ result'.outcome = "ok"
             /\ job'.status = new_status
     /\ \A amount \in PayAmounts :
          record_cash_payment_notify(amount, "raised")
          => /\ result'.outcome = "ok"
             /\ Len(payments') = Len(payments) + 1
             /\ job'.amount_paid = job.amount_paid + amount]_vars

\* C28: in every state reached by sending RFQs, submitting and selecting
\* quotes, an RFQ has at most one SELECTED quote, and when it has one it is
\* the quote named by the RFQ's selected_quote_id.
C28_OneSelectedQuote ==
  \A rfq_id \in Ids(rfqs) :
    LET selected == {q \in QuotesOf(quotes, rfq_id) :
                       quotes[q].status = "SELECTED"}
    IN  /\ Cardinality(selected) <= 1
        /\ selected # {} => selected = {rfqs[rfq_id].selected_quote_id}

\* C29: once an RFQ is QUOTE_SELECTED no operation changes its status or
\* its selected_quote_id; in particular a submission by a vendor whose
\* quote is still PENDING does not move it back to QUOTES_RECEIVED.
C29_SelectionFinal ==
  [][\A rfq_id \in Ids(rfqs) :
       rfqs[rfq_id].status = "QUOTE_SELECTED"
       => /\ rfqs'[rfq_id].status = "QUOTE_SELECTED"
          /\ rfqs'[rfq_id].selected_quote_id
               = rfqs[rfq_id].selected_quote_id]_vars

\* C30: in every state reached by payments, status updates, estimate
\* rebuilds and quote selections, a PAID job has balance_due <= 0 and a
\* PARTIALLY_PAID job has amount_paid > 0 and balance_due > 0.
C30_StatusMatchesLedger ==
  /\ job.status = "PAID" => job.balance_due <= 0
  /\ job.status = "PARTIALLY_PAID"
       => (job.amount_paid > 0 /\ job.balance_due > 0)
====
